---------------------------- MODULE Spec2Model ----------------------------
(***************************************************************************)
(* State-machine model of scripts/start_local_env.py: the supervisor of    *)
(* the localnet node process (main, kill_process_at_port) and the          *)
(* provisioning workflow (fresh_start).                                    *)
(***************************************************************************)
EXTENDS Integers, Sequences, FiniteSets, TLC

VARIABLES
    args,            \* parsed command line: debug, force_restart, offline
    pc,              \* position of main()
    exitStatus,      \* exit status of the python process, meaningful at pc = "exit"
    outcome,         \* how main() ended: "running", "Crashed", "Done", "Exception", "KeyboardInterrupt"
    interrupts,      \* interrupts (ctrl-c) delivered to the python process so far
    childState,      \* the Popen child: "none", "starting", "serving", "exited"
    returncode,      \* the child's return code, meaningful once childState = "exited"
    cmd,             \* argv the child was launched with
    nodeSignals,     \* interrupts the child received from the terminal's process group
    forwarded,       \* signals the supervisor itself sent to the child it launched
    oldNode,         \* a localnet left over from an earlier run: "none", "running", "killed", "gone"
    killed,          \* pids handed to kill(1) by kill_process_at_port
    probes,          \* readiness probes issued
    sleeps,          \* time.sleep(0.25) calls completed
    readySeen,       \* a probe returned status 200
    lastPoll,        \* what the last local_testnet_handle.poll() of the loop saw
    fpc,             \* position inside fresh_start()
    freshStartCalls, \* number of times fresh_start() was called
    issued,          \* external operations submitted by fresh_start, in order
    failedStep,      \* the step of fresh_start that raised, "none" if none did
    txn_hash,        \* transaction hash parsed from the create-gift output
    changes,         \* data["changes"] of the queried transaction
    gift_address,    \* the local variable gift_address; NoAddress while unbound
    registered,      \* network/CLI state: profiles that exist
    published,       \* network state: the hongbao module is published
    gifts            \* network state: gifts created

supVars  == <<pc, exitStatus, outcome>>
nodeVars == <<childState, returncode, cmd, nodeSignals, forwarded>>
portVars == <<oldNode, killed>>
loopVars == <<probes, sleeps, readySeen, lastPoll>>
provVars == <<fpc, freshStartCalls, issued, failedStep, txn_hash, changes, gift_address>>
netVars  == <<registered, published, gifts>>
vars == <<args, supVars, interrupts, nodeVars, portVars, loopVars, provVars, netVars>>

---------------------------------------------------------------------------
(* Bounds of the model *)
MaxProbes == 2
MaxInterrupts == 1
MaxLsofLines == 2
MaxChanges == 2

---------------------------------------------------------------------------
(* Program constants *)
DEPLOYER_PROFILE_NAME == "deployer"
PLAYER1_PROFILE_NAME == "local"
PLAYER2_PROFILE_NAME == "player2"
DEPLOYER_ADDRESS == "0x5322"
HONGBAO_MODULE == "hongbao"
NumPackets == 4
ExpirySeconds == 1800
PacketAmount == 10000000

\* Strings the code inspects character by character are sequences of characters.
AptosPrefix == <<"a", "p", "t", "o", "s">>

\* str.startswith
StartsWith(s, prefix) ==
    /\ Len(s) >= Len(prefix)
    /\ SubSeq(s, 1, Len(prefix)) = prefix

\* Return codes a Popen child can end with: clean exit, error exit, killed by SIGINT.
ReturnCodes == {0, 1, -2}

\* Truthiness of local_testnet_handle.poll(): None while the child runs, else
\* the return code, and 0 is falsy.
PollIsTruthy(state, rc) == state = "exited" /\ rc # 0

\* The value poll() returns, as a record.
Poll(state, rc) ==
    [called |-> TRUE, exited |-> state = "exited",
     rc |-> IF state = "exited" THEN rc ELSE 0]

NeverPolled == [called |-> FALSE, exited |-> FALSE, rc |-> 0]

---------------------------------------------------------------------------
(* Initial state: the command line has been parsed (parse_args) *)

Args == [debug : BOOLEAN, force_restart : BOOLEAN, offline : BOOLEAN]

NoAddress == "unbound"
NoHash == "none"

Init ==
    /\ args \in Args
    /\ pc = "main"
    /\ exitStatus = 0
    /\ outcome = "running"
    /\ interrupts = 0
    /\ childState = "none"
    /\ returncode = 0
    /\ cmd = <<>>
    /\ nodeSignals = 0
    /\ forwarded = 0
    /\ oldNode \in {"none", "running"}
    /\ killed = <<>>
    /\ probes = 0
    /\ sleeps = 0
    /\ readySeen = FALSE
    /\ lastPoll = NeverPolled
    /\ fpc = "none"
    /\ freshStartCalls = 0
    /\ issued = <<>>
    /\ failedStep = "none"
    /\ txn_hash = NoHash
    /\ changes = <<>>
    /\ gift_address = NoAddress
    /\ registered \in {{}, {PLAYER2_PROFILE_NAME},
                       {DEPLOYER_PROFILE_NAME, PLAYER1_PROFILE_NAME, PLAYER2_PROFILE_NAME}}
    /\ published = {}
    /\ gifts = {}

---------------------------------------------------------------------------
(* How main() ends *)

\* Variant of UncaughtException: a clean-up handler terminates the child
\* before the exception leaves main().
UncaughtException_TerminatesChild(kind) ==
    /\ pc' = "exit"
    /\ exitStatus' = IF kind = "KeyboardInterrupt" THEN 130 ELSE 1
    /\ outcome' = kind
    /\ forwarded' = forwarded + 1
    /\ childState' = IF childState \in {"starting", "serving"} THEN "exited" ELSE childState
    /\ returncode' = IF childState \in {"starting", "serving"} THEN -15 ELSE returncode

\* An exception nothing catches leaves main(): the interpreter prints the
\* traceback and exits non-zero.  No handler or finally clause touches the
\* Popen handle, so the child is left as it is.
UncaughtException(kind) ==
    /\ pc' = "exit"
    /\ exitStatus' = IF kind = "KeyboardInterrupt" THEN 130 ELSE 1
    /\ outcome' = kind
    /\ UNCHANGED <<childState, returncode, forwarded>>

\* main() returns (after the crash message, or after "Done, goodbye!"):
\* the script ends and the interpreter exits with status 0.
MainReturns(how) ==
    /\ pc' = "exit"
    /\ exitStatus' = 0
    /\ outcome' = how

---------------------------------------------------------------------------
(* main(): set-up *)

\* if args.debug: logging.setLevel("DEBUG").  The logging module has no
\* attribute setLevel, so the call raises AttributeError.
SetLogLevel ==
    /\ pc = "main"
    /\ IF args.debug
         THEN UncaughtException("Exception")
         ELSE /\ pc' = "kill"
              /\ UNCHANGED <<exitStatus, outcome, childState, returncode, forwarded>>
    /\ UNCHANGED <<args, interrupts, cmd, nodeSignals, portVars, loopVars, provVars, netVars>>

\* Lines of lsof's standard output: a command name and a pid column.
OldNodePid == "101"
NoPid == "None"
HeaderLine == [command |-> <<"C", "O", "M", "M", "A", "N", "D">>, pid |-> "PID"]
OldNodeLine == [command |-> AptosPrefix, pid |-> OldNodePid]
OtherLines ==
    { [command |-> <<"a", "p", "t", "o", "s", "-", "f">>, pid |-> "202"],
      [command |-> <<"p", "y", "t", "h", "o", "n">>, pid |-> "303"] }

\* Sequences over S of length lo..hi
SeqsOf(S, lo, hi) == UNION { [1..n -> S] : n \in lo..hi }

\* What lsof -i :8080 can print: nothing (no process on the port, or lsof
\* failed), or a header followed by one line per listed socket.
LsofOutputs(old) ==
    LET procs == (IF old = "running" THEN {OldNodeLine} ELSE {}) \cup OtherLines
    IN  {<<>>} \cup { <<HeaderLine>> \o body : body \in SeqsOf(procs, 1, MaxLsofLines) }

\* for line in out.stdout.splitlines(): if line.startswith("aptos"): pid = line.split()[1]
\* (no break: the last matching line wins)
RECURSIVE ScanLsof(_, _, _)
ScanLsof(lines, i, pid) ==
    IF i > Len(lines) THEN pid
    ELSE ScanLsof(lines, i + 1,
                  IF StartsWith(lines[i].command, AptosPrefix) THEN lines[i].pid ELSE pid)

\* kill_process_at_port(8080).  subprocess.run(["lsof", ...]) has no check=True,
\* so a failing lsof only leaves stdout empty, but it raises FileNotFoundError
\* when there is no lsof executable to run.  The result of kill is not checked.
KillProcessAtPort ==
    /\ pc = "kill"
    /\ \E lsofInstalled \in BOOLEAN :
         IF lsofInstalled
           THEN /\ \E out \in LsofOutputs(oldNode) :
                     LET pid == ScanLsof(out, 1, NoPid)
                     IN  IF pid # NoPid
                           THEN /\ killed' = Append(killed, pid)
                                /\ \E killWorks \in BOOLEAN :
                                     oldNode' = IF pid = OldNodePid /\ killWorks
                                                  THEN "killed" ELSE oldNode
                           ELSE UNCHANGED <<killed, oldNode>>
                /\ pc' = "launch"
                /\ UNCHANGED <<exitStatus, outcome, childState, returncode, forwarded>>
           ELSE /\ UncaughtException("Exception")
                /\ UNCHANGED <<killed, oldNode>>
    /\ UNCHANGED <<args, interrupts, cmd, nodeSignals, loopVars, provVars, netVars>>

\* Variant of NodeCommand: the two flags are appended whatever the mode.
NodeCommand_AlwaysFresh(a) ==
    <<"aptos", "node", "run-localnet", "--with-indexer-api", "--force-restart", "--assume-yes">>

\* cmd = [aptos, "node", "run-localnet", "--with-indexer-api"] (+ the two flags)
NodeCommand(a) ==
    <<"aptos", "node", "run-localnet", "--with-indexer-api">>
    \o (IF a.force_restart THEN <<"--force-restart", "--assume-yes">> ELSE <<>>)

\* local_testnet_handle = subprocess.Popen(cmd); Popen raises when the binary
\* cannot be started.
Launch ==
    /\ pc = "launch"
    /\ \E started \in BOOLEAN :
         IF started
           THEN /\ childState' = "starting"
                /\ cmd' = NodeCommand(args)
                /\ pc' = "probe"
                /\ UNCHANGED <<exitStatus, outcome, returncode, forwarded>>
           ELSE /\ UncaughtException("Exception")
                /\ UNCHANGED cmd
    /\ UNCHANGED <<args, interrupts, nodeSignals, portVars, loopVars, provVars, netVars>>

---------------------------------------------------------------------------
(* main(): the readiness loop, lines 80-91 *)

\* HTTP statuses urlopen hands back without raising.
Statuses == {200, 204}

\* Something answers on the readiness port: the launched child once it
\* serves, or a localnet of an earlier run that is still alive.
Listening == childState = "serving" \/ oldNode \in {"running", "killed"}

\* Variant of OnProbeResponse: the break sits outside the status test.
OnProbeResponse_AnyStatus(status) ==
    /\ readySeen' = (readySeen \/ status = 200)
    /\ pc' = "ready"
    /\ UNCHANGED <<exitStatus, outcome, lastPoll>>

\* Variant of OnProbeResponse: a status other than 200 goes straight to the
\* next iteration (continue), skipping time.sleep.
OnProbeResponse_NoSleep(status) ==
    /\ IF status = 200
         THEN /\ readySeen' = TRUE
              /\ pc' = "ready"
         ELSE /\ readySeen' = readySeen
              /\ pc' = "probe"
    /\ UNCHANGED <<exitStatus, outcome, lastPoll>>

\* The try body: response = urlopen(...); if response.status == 200: break.
\* Any other status falls through to time.sleep without a poll() check.
OnProbeResponse(status) ==
    /\ IF status = 200
         THEN /\ readySeen' = TRUE
              /\ pc' = "ready"
         ELSE /\ readySeen' = readySeen
              /\ pc' = "sleep"
    /\ UNCHANGED <<exitStatus, outcome, lastPoll>>

\* The bare except: clause: if local_testnet_handle.poll(): print; return.
OnProbeException ==
    /\ lastPoll' = Poll(childState, returncode)
    /\ IF PollIsTruthy(childState, returncode)
         THEN MainReturns("Crashed")
         ELSE /\ pc' = "sleep"
              /\ UNCHANGED <<exitStatus, outcome>>
    /\ UNCHANGED readySeen

\* One iteration up to the sleep: the probe answers with a status, or raises
\* (connection refused, timeout, HTTP error).
ProbeOutcome ==
    \E raised \in BOOLEAN :
       IF raised
         THEN OnProbeException
         ELSE /\ Listening
              /\ \E status \in Statuses : OnProbeResponse(status)

Probe ==
    /\ pc = "probe"
    /\ probes < MaxProbes
    /\ probes' = probes + 1
    /\ ProbeOutcome
    /\ UNCHANGED <<args, interrupts, nodeVars, portVars, sleeps, provVars, netVars>>

\* The same iteration in runs of any length: the counters probes and sleeps,
\* which only measure the run, are left alone.
ProbeUncounted ==
    /\ pc = "probe"
    /\ ProbeOutcome
    /\ UNCHANGED <<args, interrupts, nodeVars, portVars, probes, sleeps, provVars, netVars>>

\* time.sleep(0.25), then the next iteration.
Sleep ==
    /\ pc = "sleep"
    /\ sleeps' = sleeps + 1
    /\ pc' = "probe"
    /\ UNCHANGED <<args, exitStatus, outcome, interrupts, nodeVars, portVars,
                   probes, readySeen, lastPoll, provVars, netVars>>

\* time.sleep(0.25) in runs of any length.
SleepUncounted ==
    /\ pc = "sleep"
    /\ pc' = "probe"
    /\ UNCHANGED <<args, exitStatus, outcome, interrupts, nodeVars, portVars,
                   loopVars, provVars, netVars>>

\* Variant of CallFreshStart: the call is not guarded by args.force_restart.
CallFreshStart_Always ==
    /\ pc = "ready"
    /\ pc' = "fresh"
    /\ fpc' = "init1"
    /\ freshStartCalls' = freshStartCalls + 1
    /\ UNCHANGED <<args, exitStatus, outcome, interrupts, nodeVars, portVars, loopVars,
                   issued, failedStep, txn_hash, changes, gift_address, netVars>>

\* print("Localnet came up!"); if args.force_restart: fresh_start(args)
CallFreshStart ==
    /\ pc = "ready"
    /\ IF args.force_restart
         THEN /\ pc' = "fresh"
              /\ fpc' = "init1"
              /\ freshStartCalls' = freshStartCalls + 1
         ELSE /\ pc' = "wait"
              /\ UNCHANGED <<fpc, freshStartCalls>>
    /\ UNCHANGED <<args, exitStatus, outcome, interrupts, nodeVars, portVars, loopVars,
                   issued, failedStep, txn_hash, changes, gift_address, netVars>>

---------------------------------------------------------------------------
(* main(): waiting for the node, lines 97-109 *)

\* local_testnet_handle.wait() returns once the child has exited;
\* print("Done, goodbye!") and main() returns.
Wait ==
    /\ pc = "wait"
    /\ childState = "exited"
    /\ MainReturns("Done")
    /\ UNCHANGED <<args, interrupts, nodeVars, portVars, loopVars, provVars, netVars>>

\* Variant of WaitAfterInterrupt: the handler returns without a second wait().
WaitAfterInterrupt_NoWait ==
    /\ pc = "wait2"
    /\ MainReturns("Done")
    /\ UNCHANGED <<args, interrupts, nodeVars, portVars, loopVars, provVars, netVars>>

\* The second wait(), inside except KeyboardInterrupt.
WaitAfterInterrupt ==
    /\ pc = "wait2"
    /\ childState = "exited"
    /\ MainReturns("Done")
    /\ UNCHANGED <<args, interrupts, nodeVars, portVars, loopVars, provVars, netVars>>

\* Variant of OnKeyboardInterruptInWait: the handler signals the child itself.
OnKeyboardInterruptInWait_Forwards ==
    /\ pc' = "wait2"
    /\ forwarded' = forwarded + 1
    /\ UNCHANGED <<exitStatus, outcome, childState, returncode>>

\* except KeyboardInterrupt: print; (no signal is sent) local_testnet_handle.wait()
OnKeyboardInterruptInWait ==
    /\ pc' = "wait2"
    /\ UNCHANGED <<exitStatus, outcome, childState, returncode, forwarded>>

\* A ctrl-c reaches the python process.  When it comes from the terminal the
\* whole foreground process group gets it, the child included; a signal sent
\* to the python process alone (kill -INT) does not reach the child.
Deliver(toGroup) ==
    /\ interrupts < MaxInterrupts
    /\ interrupts' = interrupts + 1
    /\ nodeSignals' = IF toGroup /\ childState \in {"starting", "serving"}
                        THEN nodeSignals + 1 ELSE nodeSignals

\* KeyboardInterrupt raised inside the first wait().
InterruptInWait ==
    /\ pc = "wait"
    /\ \E toGroup \in BOOLEAN : Deliver(toGroup)
    /\ OnKeyboardInterruptInWait
    /\ UNCHANGED <<args, cmd, portVars, loopVars, provVars, netVars>>

\* KeyboardInterrupt raised inside urlopen: the bare except: clause catches it
\* like any other exception.
InterruptInProbe ==
    /\ pc = "probe"
    /\ probes < MaxProbes
    /\ probes' = probes + 1
    /\ \E toGroup \in BOOLEAN : Deliver(toGroup)
    /\ OnProbeException
    /\ UNCHANGED <<args, childState, returncode, cmd, forwarded, portVars, sleeps,
                   provVars, netVars>>

\* KeyboardInterrupt anywhere else (set-up, time.sleep, fresh_start, the
\* second wait()) is not caught.
InterruptElsewhere ==
    /\ pc \in {"main", "kill", "launch", "sleep", "ready", "fresh", "wait2"}
    /\ \E toGroup \in BOOLEAN : Deliver(toGroup)
    /\ UncaughtException("KeyboardInterrupt")
    /\ UNCHANGED <<args, cmd, portVars, loopVars, provVars, netVars>>

---------------------------------------------------------------------------
(* The environment: the node processes *)

\* The launched node starts answering on the readiness port.
ChildServes ==
    /\ pc # "exit"
    /\ childState = "starting"
    /\ childState' = "serving"
    /\ UNCHANGED <<args, supVars, interrupts, returncode, cmd, nodeSignals, forwarded,
                   portVars, loopVars, provVars, netVars>>

\* The launched node exits, by itself or because of an interrupt it received.
ChildExits ==
    /\ pc # "exit"
    /\ childState \in {"starting", "serving"}
    /\ childState' = "exited"
    /\ returncode' \in ReturnCodes
    /\ UNCHANGED <<args, supVars, interrupts, cmd, nodeSignals, forwarded,
                   portVars, loopVars, provVars, netVars>>

\* The localnet of an earlier run finishes terminating after kill(1).
OldNodeGone ==
    /\ pc # "exit"
    /\ oldNode = "killed"
    /\ oldNode' = "gone"
    /\ UNCHANGED <<args, supVars, interrupts, nodeVars, killed, loopVars, provVars, netVars>>

---------------------------------------------------------------------------
(* fresh_start(): the provisioning workflow, lines 113-235 *)

Identities ==
    << [profile |-> DEPLOYER_PROFILE_NAME, private_key |-> "0xc7e8"],
       [profile |-> PLAYER1_PROFILE_NAME,  private_key |-> "0xece9..ff"],
       [profile |-> PLAYER2_PROFILE_NAME,  private_key |-> "0xece9..fd"] >>

InitSteps == <<"init1", "init2", "init3">>

\* Variant of AfterInit: the loop over the identities ends after its first pass.
AfterInit_OnePass(i) == "publish"

\* The step after the i-th account creation.
AfterInit(i) == IF i < Len(Identities) THEN InitSteps[i + 1] ELSE "publish"

\* Exit codes of the external CLI.
CliReturnCodes == {0, 1}

\* The external CLI rejects an operation that collides with state that is
\* already there (a profile that exists, a module already published).
Collides(step, profile) ==
    \/ step = "init" /\ profile \in registered
    \/ step = "publish" /\ DEPLOYER_ADDRESS \in published

\* Exit codes the CLI can answer a step with.
CliAnswers(step, profile) ==
    IF Collides(step, profile) THEN CliReturnCodes \ {0} ELSE CliReturnCodes

\* Variant of CheckRaises: check=True is missing, exit codes are ignored.
CheckRaises_Unchecked(rc) == FALSE

\* DEFAULT_SUBPROCESS_KWARGS has check=True: subprocess.run raises
\* CalledProcessError exactly when the command's exit code is not 0.
CheckRaises(rc) == rc # 0

\* A step of fresh_start raises: nothing in fresh_start or main catches it.
StepFails(step) ==
    /\ failedStep' = step
    /\ fpc' = "aborted"
    /\ UncaughtException("Exception")

\* The step completed; control moves to the next statement of fresh_start.
StepDone(next) ==
    /\ fpc' = next
    /\ UNCHANGED <<failedStep, pc, exitStatus, outcome, childState, returncode, forwarded>>

\* for profile_name, private_key in [...]: subprocess.run([aptos, "init", ...])
CreateAccount ==
    /\ pc = "fresh"
    /\ \E i \in DOMAIN InitSteps :
         /\ fpc = InitSteps[i]
         /\ \E rc \in CliAnswers("init", Identities[i].profile) :
              /\ issued' = Append(issued,
                     [step |-> "init", network |-> "local",
                      profile |-> Identities[i].profile,
                      private_key |-> Identities[i].private_key, rc |-> rc])
              /\ registered' = IF rc = 0 THEN registered \cup {Identities[i].profile}
                                         ELSE registered
              /\ IF CheckRaises(rc) THEN StepFails(InitSteps[i]) ELSE StepDone(AfterInit(i))
    /\ UNCHANGED <<args, interrupts, cmd, nodeSignals, portVars, loopVars, freshStartCalls,
                   txn_hash, changes, gift_address, published, gifts>>

\* Variant of MoveCmdExtra: the test of args.offline is inverted.
MoveCmdExtra_Inverted(a) == IF a.offline THEN <<>> ELSE <<"--skip-fetch-latest-git-deps">>

\* move_cmd_extra
MoveCmdExtra(a) == IF a.offline THEN <<"--skip-fetch-latest-git-deps">> ELSE <<>>

\* Publish the module as the deployer.
PublishModule ==
    /\ pc = "fresh"
    /\ fpc = "publish"
    /\ \E rc \in CliAnswers("publish", DEPLOYER_PROFILE_NAME) :
         /\ issued' = Append(issued,
                [step |-> "publish", profile |-> DEPLOYER_PROFILE_NAME,
                 named_addresses |-> DEPLOYER_ADDRESS, extra |-> MoveCmdExtra(args),
                 rc |-> rc])
         /\ published' = IF rc = 0 THEN published \cup {DEPLOYER_ADDRESS} ELSE published
         /\ IF CheckRaises(rc) THEN StepFails("publish") ELSE StepDone("create")
    /\ UNCHANGED <<args, interrupts, cmd, nodeSignals, portVars, loopVars, freshStartCalls,
                   txn_hash, changes, gift_address, registered, gifts>>

\* Readings of time.time(), in half seconds: 0.5 s and 1.0 s.
ClockReadings == {1, 2}

\* int(time.time() + 60 * 30), with the clock read in half seconds: int()
\* drops the fraction.
ExpiryAt(halves) == (halves + 2 * ExpirySeconds) \div 2

\* What the CLI prints: JSON holding Result.transaction_hash, or something
\* json.loads or the two subscripts reject.
Hashes == {"0xh1", "0xh2"}
Stdouts == {[parseable |-> FALSE, hash |-> NoHash]}
           \cup {[parseable |-> TRUE, hash |-> h] : h \in Hashes}

\* The arguments of create_gift_coin.
GiftArgs(halves) ==
    [packets |-> NumPackets, expiry |-> ExpiryAt(halves), amount |-> PacketAmount,
     paylink_public_key |-> <<>>, keyless_only |-> FALSE]

\* Create a gift as the deployer, print the output and parse the hash.
CreateGift ==
    /\ pc = "fresh"
    /\ fpc = "create"
    /\ \E halves \in ClockReadings, rc \in CliAnswers("create", DEPLOYER_PROFILE_NAME),
          out \in Stdouts :
         /\ rc # 0 => ~out.parseable
         /\ issued' = Append(issued,
                [step |-> "create", profile |-> DEPLOYER_PROFILE_NAME,
                 function |-> <<DEPLOYER_PROFILE_NAME, HONGBAO_MODULE, "create_gift_coin">>,
                 args |-> GiftArgs(halves), clock |-> halves, rc |-> rc,
                 stdout |-> out])
         /\ gifts' = IF rc = 0 THEN gifts \cup {GiftArgs(halves)} ELSE gifts
         /\ IF CheckRaises(rc) \/ ~out.parseable
              THEN /\ StepFails("create")
                   /\ UNCHANGED txn_hash
              ELSE /\ txn_hash' = out.hash
                   /\ StepDone("query")
    /\ UNCHANGED <<args, interrupts, cmd, nodeSignals, portVars, loopVars, freshStartCalls,
                   changes, gift_address, registered, published>>

\* The type the scan looks for: f"{DEPLOYER_ADDRESS}::{HONGBAO_MODULE}::Gift",
\* a type string being its three ::-separated parts.
GiftType == <<DEPLOYER_ADDRESS, HONGBAO_MODULE, "Gift">>

\* State-change records of a transaction: an address and a data dictionary
\* that may or may not have a "type" entry.
ChangeRecords ==
    { [address |-> "0xa1", data |-> [type |-> GiftType]],
      [address |-> "0xa2", data |-> [type |-> GiftType]],
      [address |-> "0xa1", data |-> [type |-> <<"0x1", HONGBAO_MODULE, "Gift">>]],
      [address |-> "0xa2", data |-> [handle |-> "0xt"]] }
ChangeLists == SeqsOf(ChangeRecords, 0, MaxChanges)

\* dict.get(key): None (the empty type here) when the key is missing.
DictGet(d, key) == IF key \in DOMAIN d THEN d[key] ELSE <<>>

\* Get the data of the txn: urlopen(.../v1/transactions/by_hash/{txn_hash}),
\* json.loads, data["changes"].
QueryTransaction ==
    /\ pc = "fresh"
    /\ fpc = "query"
    /\ \E answered \in BOOLEAN :
         IF answered
           THEN /\ issued' = Append(issued, [step |-> "query", hash |-> txn_hash, rc |-> 0])
                /\ changes' \in ChangeLists
                /\ StepDone("resolve")
           ELSE /\ issued' = Append(issued, [step |-> "query", hash |-> txn_hash, rc |-> 1])
                /\ UNCHANGED changes
                /\ StepFails("query")
    /\ UNCHANGED <<args, interrupts, cmd, nodeSignals, portVars, loopVars, freshStartCalls,
                   txn_hash, gift_address, netVars>>

\* Variant of ScanChanges: the break is missing, the last match wins.
RECURSIVE ScanChanges_NoBreak(_, _, _)
ScanChanges_NoBreak(cs, i, addr) ==
    IF i > Len(cs) THEN addr
    ELSE ScanChanges_NoBreak(cs, i + 1,
             IF DictGet(cs[i].data, "type") = GiftType THEN cs[i].address ELSE addr)

\* for change in data["changes"]: if change["data"].get("type") == <Gift type>:
\*     gift_address = change["address"]; break
RECURSIVE ScanChanges(_, _, _)
ScanChanges(cs, i, addr) ==
    IF i > Len(cs) THEN addr
    ELSE IF DictGet(cs[i].data, "type") = GiftType THEN cs[i].address
    ELSE ScanChanges(cs, i + 1, addr)

\* Variant of ResolveGiftAddress: gift_address is bound to None before the
\* loop, so the print does not raise and the workflow goes on.
ResolveGiftAddress_Defaulted ==
    /\ pc = "fresh"
    /\ fpc = "resolve"
    /\ gift_address' = ScanChanges(changes, 1, "None")
    /\ StepDone("claim")
    /\ UNCHANGED <<args, interrupts, cmd, nodeSignals, portVars, loopVars, freshStartCalls,
                   issued, txn_hash, changes, netVars>>

\* The scan, then print(f"Created gift at {gift_address}"): reading the
\* variable raises UnboundLocalError when the loop never bound it.
ResolveGiftAddress ==
    /\ pc = "fresh"
    /\ fpc = "resolve"
    /\ gift_address' = ScanChanges(changes, 1, gift_address)
    /\ IF gift_address' = NoAddress THEN StepFails("resolve") ELSE StepDone("claim")
    /\ UNCHANGED <<args, interrupts, cmd, nodeSignals, portVars, loopVars, freshStartCalls,
                   issued, txn_hash, changes, netVars>>

\* The list handed to ",".join: three tuples.
ClaimArgs(addr) ==
    << [pytype |-> "tuple", value |-> <<"address", addr>>],
       [pytype |-> "tuple", value |-> <<"vector<u8>", <<>>>>],
       [pytype |-> "tuple", value |-> <<"vector<u8>", <<>>>>] >>

\* str.join raises TypeError unless every item is a str.
JoinRaises(items) == \E i \in DOMAIN items : items[i].pytype # "str"

\* Have player 1 snatch: the argument list is built first, then
\* subprocess.run is called; after it the two prints and the return to main.
SnatchPacket ==
    /\ pc = "fresh"
    /\ fpc = "claim"
    /\ IF JoinRaises(ClaimArgs(gift_address))
         THEN /\ StepFails("claim")
              /\ UNCHANGED issued
         ELSE \E rc \in CliAnswers("claim", PLAYER1_PROFILE_NAME) :
                /\ issued' = Append(issued,
                       [step |-> "claim", profile |-> PLAYER1_PROFILE_NAME,
                        function |-> <<DEPLOYER_PROFILE_NAME, HONGBAO_MODULE, "snatch_packet">>,
                        args |-> ClaimArgs(gift_address), rc |-> rc])
                /\ IF CheckRaises(rc)
                     THEN StepFails("claim")
                     ELSE /\ fpc' = "done"
                          /\ pc' = "wait"
                          /\ UNCHANGED <<failedStep, exitStatus, outcome, childState,
                                         returncode, forwarded>>
    /\ UNCHANGED <<args, interrupts, cmd, nodeSignals, portVars, loopVars, freshStartCalls,
                   txn_hash, changes, gift_address, netVars>>

---------------------------------------------------------------------------
Next ==
    \/ SetLogLevel
    \/ KillProcessAtPort
    \/ Launch
    \/ Probe
    \/ Sleep
    \/ CallFreshStart
    \/ Wait
    \/ WaitAfterInterrupt
    \/ InterruptInWait
    \/ InterruptInProbe
    \/ InterruptElsewhere
    \/ ChildServes
    \/ ChildExits
    \/ OldNodeGone
    \/ CreateAccount
    \/ PublishModule
    \/ CreateGift
    \/ QueryTransaction
    \/ ResolveGiftAddress
    \/ SnatchPacket

Spec == Init /\ [][Next]_vars

\* The start-up of main() up to the end of the readiness loop, in runs of any
\* length.  The script is one thread that nothing suspends: an iteration that
\* can go on does go on.
NextLoop ==
    \/ SetLogLevel
    \/ KillProcessAtPort
    \/ Launch
    \/ ProbeUncounted
    \/ SleepUncounted
    \/ ChildServes
    \/ ChildExits
    \/ OldNodeGone

SpecLoop ==
    Init /\ [][NextLoop]_vars /\ WF_vars(ProbeUncounted) /\ WF_vars(SleepUncounted)

---------------------------------------------------------------------------
(* Properties *)

\* main() has gone past the line that calls fresh_start.
PastCallSite == pc \in {"fresh", "wait", "wait2"} \/ fpc # "none" \/ outcome = "Done"

\* C1 as stated: once a probe has returned 200 and main() is past the call
\* site, the provisioning workflow has been invoked exactly once, whatever
\* the configuration.
C1_ExactlyOnceAlways ==
    (readySeen /\ PastCallSite) => freshStartCalls = 1

\* C1 as amended: a probe that returns 200 ends the readiness loop as Ready
\* (never Crashed, no further probe), and past the call site fresh_start has
\* been invoked exactly once when fresh-restart is set and not at all when it
\* is not; it is never invoked twice nor before a probe returned 200.
C1_OncePerFreshRestart ==
    /\ readySeen => (pc \notin {"probe", "sleep"} /\ outcome # "Crashed")
    /\ freshStartCalls <= 1
    /\ freshStartCalls = 1 => (readySeen /\ args.force_restart)
    /\ (readySeen /\ PastCallSite) =>
           freshStartCalls = (IF args.force_restart THEN 1 ELSE 0)

C1_Witness == readySeen /\ pc = "fresh" /\ freshStartCalls = 1 /\ probes >= 2

\* C2 as stated: when the loop's poll() finds the child exited (any exit
\* status) before a probe succeeded, main() ends as Crashed and probes no more.
C2_ExitedChildIsCrashed ==
    (lastPoll.called /\ lastPoll.exited) => (pc = "exit" /\ outcome = "Crashed")

\* C3: no provisioning step is issued before a probe returned 200, and none
\* in a run that reported the node crashed during startup.
C3_NoProvisioningBeforeReady ==
    /\ (issued # <<>> \/ fpc # "none" \/ freshStartCalls > 0) => readySeen
    /\ outcome = "Crashed" =>
           (issued = <<>> /\ fpc = "none" /\ freshStartCalls = 0 /\ ~readySeen)

C3_Witness == readySeen /\ Len(issued) >= 1 /\ lastPoll.called

\* Operations of fresh_start that came back failed.
Failed(i) == issued[i].rc # 0

\* In every state: a failed operation is the last one submitted, no step is
\* submitted twice, and a failed step means the run has ended non-zero.
C4_StateAtFailure ==
    /\ \A i \in DOMAIN issued :
         Failed(i) => /\ i = Len(issued)
                      /\ pc = "exit" /\ fpc = "aborted" /\ outcome = "Exception"
                      /\ failedStep # "none"
    /\ \A i, j \in DOMAIN issued :
         (i # j /\ issued[i].step = issued[j].step) => issued[i].step = "init"
    /\ \A i, j \in DOMAIN issued :
         (i # j /\ issued[i].step = "init" /\ issued[j].step = "init")
             => issued[i].profile # issued[j].profile
    /\ failedStep # "none" => (pc = "exit" /\ fpc = "aborted" /\ exitStatus # 0)

\* In every step: nothing applied is taken back, nothing happens after a
\* failure, and a step that collides with state already there fails.
C4_StepAtFailure ==
    /\ registered \subseteq registered'
    /\ published \subseteq published'
    /\ gifts \subseteq gifts'
    /\ failedStep # "none" => UNCHANGED <<issued, registered, published, gifts>>
    /\ \A i \in DOMAIN InitSteps :
         (pc = "fresh" /\ fpc = InitSteps[i] /\ Identities[i].profile \in registered
            /\ issued' # issued)
         => (failedStep' = InitSteps[i] /\ pc' = "exit" /\ registered' = registered)
    /\ (pc = "fresh" /\ fpc = "publish" /\ DEPLOYER_ADDRESS \in published /\ issued' # issued)
         => (failedStep' = "publish" /\ pc' = "exit")

\* C4: a step whose external operation failed is the last operation ever
\* submitted (no retry, no later step) and the run has aborted at that step;
\* a step that collides with state already there fails at that step; what
\* was applied before stays applied.
C4_AbortAtFailedStep == []C4_StateAtFailure /\ [][C4_StepAtFailure]_vars

C4_Witness ==
    /\ failedStep = "init3"
    /\ Len(issued) = 3 /\ Failed(3)
    /\ registered = {DEPLOYER_PROFILE_NAME, PLAYER1_PROFILE_NAME, PLAYER2_PROFILE_NAME}

\* The claim operation fresh_start submitted, if any.
ClaimsSubmitted == { i \in DOMAIN issued : issued[i].step = "claim" }

IsGift(change) == "type" \in DOMAIN change.data /\ change.data.type = GiftType
GiftIndexes(cs) == { i \in DOMAIN cs : IsGift(cs[i]) }

\* The transaction query was answered, so changes holds its changes list.
QueryAnswered == \E i \in DOMAIN issued : issued[i].step = "query" /\ ~Failed(i)

\* The scan of ResolveGiftAddress has run on the answered query.
ScanHasRun == QueryAnswered /\ fpc # "resolve"

\* C6: when the changes list holds at least one record of the Gift type,
\* gift_address is the address of the matching record of lowest index,
\* whatever precedes it and however many later records match.
C6_FirstMatchWins ==
    /\ (ScanHasRun /\ GiftIndexes(changes) # {}) =>
          \E i \in GiftIndexes(changes) :
             /\ \A j \in GiftIndexes(changes) : i <= j
             /\ gift_address = changes[i].address
    /\ ~ScanHasRun => gift_address = NoAddress

C6_Witness ==
    /\ fpc = "claim"
    /\ Len(changes) = 2
    /\ GiftIndexes(changes) = {1, 2}
    /\ changes[1].address # changes[2].address
    /\ gift_address = changes[1].address

\* C7: when no record of the changes list is of the Gift type (the list is
\* empty or holds only other records), no gift_address is produced, the
\* workflow aborts at the resolution step as a failure, and no claim is
\* submitted.
C7_NoMatchFails ==
    (ScanHasRun /\ GiftIndexes(changes) = {}) =>
        /\ gift_address = NoAddress
        /\ failedStep = "resolve"
        /\ pc = "exit" /\ outcome = "Exception" /\ exitStatus # 0
        /\ ClaimsSubmitted = {}

C7_Witness ==
    /\ failedStep = "resolve"
    /\ Len(changes) = 2
    /\ GiftIndexes(changes) = {}

\* C8 as stated: after a single interrupt caught in the first wait(), the
\* supervisor has forwarded exactly one signal to the node.
C8_OneSignalForwarded ==
    pc = "wait2" => forwarded = 1

\* C8 as amended: an interrupt caught in the first wait() makes the
\* supervisor send no signal to the node (the node gets the interrupt only
\* from the terminal, at most once per interrupt); the supervisor waits again
\* and ends normally only once the node has exited; it never sends an
\* interrupt of its own.
C8_NoSignalForwarded ==
    /\ forwarded = 0
    /\ nodeSignals <= interrupts
    /\ pc = "wait2" => (interrupts >= 1 /\ outcome = "running")
    /\ outcome = "Done" => (childState = "exited" /\ exitStatus = 0)

C8_Witness ==
    /\ pc = "wait2"
    /\ interrupts = 1 /\ nodeSignals = 1
    /\ childState = "exited"

\* C9 as stated: every fatal error (the node crashed before becoming ready,
\* or a provisioning step failed) ends the process with a non-zero status.
C9_FatalExitsNonZero ==
    (pc = "exit" /\ (outcome = "Crashed" \/ failedStep # "none")) => exitStatus # 0

\* The transition in which a provisioning step fails leaves the node alone.
C10_StepFailureKeepsNode ==
    (failedStep = "none" /\ failedStep' # "none") =>
        /\ childState' = childState
        /\ returncode' = returncode
        /\ forwarded' = forwarded /\ forwarded = 0
        /\ nodeSignals' = nodeSignals

\* C10: when a provisioning step fails the supervisor does nothing to the
\* node process: it sends no signal, and the node is in the same state after
\* the abort as when the step failed.
C10_NodeLeftRunning == [][C10_StepFailureKeepsNode]_vars

C10_Witness ==
    /\ pc = "exit" /\ failedStep = "publish"
    /\ childState = "serving"
    /\ forwarded = 0

\* C11: the loop never busy-spins: a full time.sleep lies between any two
\* consecutive probes, whether the earlier probe raised or returned a status
\* other than 200, so the probes never outnumber the sleeps by more than one.
C11_SleepBetweenProbes ==
    /\ sleeps <= probes /\ probes <= sleeps + 1
    /\ pc = "probe" => probes = sleeps
    /\ pc = "sleep" => probes = sleeps + 1

C11_Witness ==
    /\ pc = "sleep"
    /\ probes = 2 /\ sleeps = 1
    /\ ~lastPoll.called /\ ~readySeen

\* A step that ends the port reclaim without a ctrl-c goes on to the launch.
C12_StepFromReclaim ==
    (pc = "kill" /\ pc' # "kill" /\ interrupts' = interrupts) => pc' = "launch"

\* C12 as stated: whatever the port inspection and the kill do, reclaiming
\* the port ends without error and main() goes on to launch the node.
C12_ReclaimNeverFatal == [][C12_StepFromReclaim]_vars

\* C13: the publish step carries --skip-fetch-latest-git-deps exactly when the
\* offline flag is set; its other arguments, the other steps and the node's
\* command line do not mention the flag.
C13_SkipFetchIffOffline ==
    /\ \A i \in DOMAIN issued :
         IF issued[i].step = "publish"
           THEN /\ args.offline => issued[i].extra = <<"--skip-fetch-latest-git-deps">>
                /\ ~args.offline => issued[i].extra = <<>>
                /\ issued[i].profile = "deployer"
                /\ issued[i].named_addresses = DEPLOYER_ADDRESS
           ELSE "extra" \notin DOMAIN issued[i]
    /\ \A k \in DOMAIN cmd : cmd[k] # "--skip-fetch-latest-git-deps"
    /\ \A i \in DOMAIN issued : i = 4 <=> issued[i].step = "publish"

C13_Witness ==
    /\ args.offline
    /\ Len(issued) >= 5
    /\ issued[4].step = "publish" /\ issued[4].rc = 0
    /\ issued[4].extra = <<"--skip-fetch-latest-git-deps">>

\* A probe of the loop that did not report success.
FailedProbeStep == pc = "probe" /\ probes' = probes + 1 /\ ~readySeen'

\* C14 as stated: after every probe that does not report success the loop
\* checks whether the child has exited before it sleeps, and a child that is
\* dead at that moment is reported Crashed in that same iteration.
C14_PollAfterFailedProbe ==
    [][FailedProbeStep =>
          /\ lastPoll' = Poll(childState, returncode)
          /\ childState = "exited" => outcome' = "Crashed"]_vars

\* main() is inside the readiness loop.
InLoop == pc \in {"probe", "sleep"}

\* C15 as stated: once the child has exited with a non-zero status, the loop
\* ends (as Crashed, unless a probe succeeds); and the loop ends only by a
\* probe that succeeds or with the child dead, never by a timeout of its own.
C15_NoHangOnUncleanExit ==
    /\ [](( InLoop /\ childState = "exited" /\ returncode # 0 )
            => <>( outcome = "Crashed" \/ readySeen ))
    /\ [][ (InLoop /\ ~InLoop') => (readySeen' \/ childState = "exited") ]_vars

\* The steps of fresh_start that submit something, in the order of the text.
StepOrder == <<"init", "init", "init", "publish", "create", "query", "claim">>

\* C16: what has been issued is a prefix of the declared order, the three
\* registrations being deployer, player 1, player 2; every step but the last
\* issued one succeeded; the query asks for exactly the hash that the gift
\* creation printed; control is at one step at a time, the one after the last
\* issued, and reaches the claim only with gift_address bound.
C16_StepsInOrder ==
    /\ Len(issued) <= Len(StepOrder)
    /\ \A i \in DOMAIN issued :
         /\ issued[i].step = StepOrder[i]
         /\ i <= Len(Identities) => issued[i].profile = Identities[i].profile
         /\ i < Len(issued) => issued[i].rc = 0
    /\ Len(issued) >= 6 =>
         /\ issued[5].stdout.parseable
         /\ issued[5].stdout.hash # NoHash
         /\ issued[6].hash = issued[5].stdout.hash
    /\ fpc \in {"init1", "init2", "init3"} =>
         \E i \in DOMAIN InitSteps : fpc = InitSteps[i] /\ Len(issued) = i - 1
    /\ fpc = "publish" => Len(issued) = 3
    /\ fpc = "create" => Len(issued) = 4
    /\ fpc = "query" => Len(issued) = 5
    /\ fpc \in {"resolve", "claim"} => Len(issued) = 6 /\ issued[6].rc = 0
    /\ fpc = "claim" => gift_address # NoAddress

C16_Witness ==
    /\ fpc = "claim"
    /\ Len(issued) = 6
    /\ issued[6].hash = "0xh2"
    /\ gift_address = "0xa2"

\* A step that leaves the second wait() without a further ctrl-c finds the
\* child exited and ends main() normally.
C17_StepFromSecondWait ==
    (pc = "wait2" /\ pc' # "wait2" /\ interrupts' = interrupts)
       => (childState = "exited" /\ outcome' = "Done" /\ exitStatus' = 0)

\* kill is only ever called before the child exists.
C17_KillOnlyBeforeLaunch == killed' # killed => childState = "none"

\* C17: the supervisor sends the child no signal and kills only before the
\* launch; after a ctrl-c in the wait it blocks until the child has exited
\* and then ends normally; it never ends normally while the child runs.
C17_ChildNeverTerminated ==
    /\ [](forwarded = 0)
    /\ [](outcome = "Done" => (childState = "exited" /\ exitStatus = 0))
    /\ [][C17_StepFromSecondWait /\ C17_KillOnlyBeforeLaunch]_vars

C17_Witness ==
    /\ outcome = "Done"
    /\ interrupts = 1
    /\ ~lastPoll.called
    /\ childState = "exited"

\* What main() does at the end of the readiness loop when no ctrl-c arrives.
C18_StepFromReady ==
    (pc = "ready" /\ pc' # "ready" /\ interrupts' = interrupts) =>
        IF args.force_restart
          THEN pc' = "fresh" /\ freshStartCalls' = 1
          ELSE pc' = "wait" /\ freshStartCalls' = 0

\* x is one of the words of the command line.
InCmd(x) == \E i \in DOMAIN cmd : cmd[i] = x

\* C18: in resume mode nothing of fresh_start ever runs and main() goes from
\* Ready to the wait; with fresh-restart fresh_start is called once, after
\* Ready; the node's command line has --force-restart and --assume-yes exactly
\* with fresh-restart.
C18_ProvisioningIffFreshRestart ==
    /\ [](/\ ~args.force_restart =>
                (issued = <<>> /\ fpc = "none" /\ freshStartCalls = 0 /\ pc # "fresh")
          /\ freshStartCalls <= 1
          /\ freshStartCalls = 1 => (args.force_restart /\ readySeen)
          /\ childState # "none" =>
                /\ SubSeq(cmd, 1, 4) = <<"aptos", "node", "run-localnet", "--with-indexer-api">>
                /\ InCmd("--force-restart") <=> args.force_restart
                /\ InCmd("--assume-yes") <=> args.force_restart
                /\ Len(cmd) = IF args.force_restart THEN 6 ELSE 4)
    /\ [][C18_StepFromReady]_vars

C18_Witness ==
    /\ pc = "wait"
    /\ ~args.force_restart
    /\ readySeen
    /\ Len(cmd) = 4

\* C19 as stated: with either value of the debug option the first step of
\* main() leads on to the port reclaim (and from there to the launch).
C19_DebugNeverAborts ==
    [][(pc = "main" /\ pc' # "main" /\ interrupts' = interrupts) => pc' = "kill"]_vars

\* C20 as stated: when the loop leaves as Ready, the child launched by this
\* run has not exited.
C20_ReadyOnlyForLiveChild ==
    [][(~readySeen /\ readySeen') => childState \in {"starting", "serving"}]_vars

====
